---- MODULE Spec2Model ----
(***************************************************************************)
(* Marathon Music: the playlist generation algorithm (src/algorithm.py)    *)
(* and the /generate handler that feeds it (src/app.py).                   *)
(*                                                                         *)
(* Numbers are fixed-point so that the comparisons of the source are       *)
(* exact: a tempo is held in units of 1/TempoScale BPM, an energy and a    *)
(* phase fraction in units of 1/PctScale, a time in minutes in units of    *)
(* 1/PctScale minute.  Floating-point rounding is outside the model.       *)
(***************************************************************************)
EXTENDS Integers, Sequences, FiniteSets, TLC

VARIABLES
    tracks,            \* the caller's list object passed as `tracks`
    distance_km,       \* argument distance_km
    goal_time_min,     \* argument goal_time_min
    target_cadence,    \* local of generate_playlist / result of the estimator
    phases,            \* local of generate_playlist / result of the planner
    phase_idx,         \* position of `for phase in phases` (1-based)
    bpm_tolerance,     \* local of generate_playlist / argument of the filter
    suitable_tracks,   \* local of generate_playlist / result of the filter
    phase_tracks,      \* result of the most recent fill_phase_duration call
    playlist,          \* local of generate_playlist, returned at the end
    pc,                \* control position
    \* ---- history (observation only, never read by an action's guard) ----
    tracks0,           \* the catalog as it was when the call began
    filter_log,        \* the filter steps run for the current phase
    contrib,           \* per processed phase: what was done for it
    prev,              \* the previous direct call of a function of the module
    fill_duration_min, \* argument of a direct call of fill_phase_duration
    \* ---- the /generate handler ----
    authenticated,     \* 'token_info' in session
    saved_tracks,      \* the user's saved-track items
    missing_features,  \* ids for which sp.audio_features returns None
    tracks_with_features,
    response

vars == << tracks, distance_km, goal_time_min, target_cadence, phases, phase_idx,
           bpm_tolerance, suitable_tracks, phase_tracks, playlist, pc,
           tracks0, filter_log, contrib, prev, fill_duration_min,
           authenticated, saved_tracks, missing_features, tracks_with_features,
           response >>

asm_vars == << tracks, distance_km, goal_time_min, target_cadence, phases, phase_idx,
               bpm_tolerance, suitable_tracks, phase_tracks, playlist,
               tracks0, filter_log, contrib >>

call_vars == << prev, fill_duration_min >>

app_vars == << authenticated, saved_tracks, missing_features, tracks_with_features,
               response >>

-----------------------------------------------------------------------------
(* Units *)

\* tempo is a float in BPM; the model holds it in half BPM, so that
\* target_cadence/2 (87.5 for 175) is exact
TempoScale == 2
\* energies and phase fractions are floats with two decimals; the model holds
\* them in hundredths
PctScale == 100

None == "None"

-----------------------------------------------------------------------------
(* calculate_target_cadence *)

\* pace_min_per_km = goal_time_min / distance_km, kept as a fraction
Pace(distance, goal_time) == [num |-> goal_time, den |-> distance]

\* pace < n for a fraction with a positive denominator
PaceLess(pace, n) == pace.num < n * pace.den

\* mutant of calculate_target_cadence: the thresholds belong to the faster branch
calculate_target_cadence_inclusive(distance, goal_time) ==
    LET pace_min_per_km == Pace(distance, goal_time) IN
    IF ~PaceLess(pace_min_per_km, 4) /\ pace_min_per_km.num # 4 * pace_min_per_km.den THEN
        IF ~PaceLess(pace_min_per_km, 5) /\ pace_min_per_km.num # 5 * pace_min_per_km.den
        THEN 170 ELSE 175
    ELSE 180

calculate_target_cadence(distance, goal_time) ==
    LET pace_min_per_km == Pace(distance, goal_time) IN
    IF PaceLess(pace_min_per_km, 4) THEN 180
    ELSE IF PaceLess(pace_min_per_km, 5) THEN 175
    ELSE 170

-----------------------------------------------------------------------------
(* define_race_phases *)

\* mutant of PhaseTable: the last phase is missing
PhaseTableMutant ==
    << [name |-> "Warmup", start_pct |-> 0,  end_pct |-> 5,   energy_min |-> 50, energy_max |-> 60],
       [name |-> "Settle", start_pct |-> 5,  end_pct |-> 30,  energy_min |-> 50, energy_max |-> 65],
       [name |-> "Cruise", start_pct |-> 30, end_pct |-> 55,  energy_min |-> 60, energy_max |-> 70],
       [name |-> "Grind",  start_pct |-> 55, end_pct |-> 75,  energy_min |-> 70, energy_max |-> 80],
       [name |-> "Wall",   start_pct |-> 75, end_pct |-> 100, energy_min |-> 80, energy_max |-> 100] >>

PhaseTable ==
    << [name |-> "Warmup", start_pct |-> 0,  end_pct |-> 5,   energy_min |-> 50, energy_max |-> 60],
       [name |-> "Settle", start_pct |-> 5,  end_pct |-> 30,  energy_min |-> 50, energy_max |-> 65],
       [name |-> "Cruise", start_pct |-> 30, end_pct |-> 55,  energy_min |-> 60, energy_max |-> 70],
       [name |-> "Grind",  start_pct |-> 55, end_pct |-> 75,  energy_min |-> 70, energy_max |-> 80],
       [name |-> "Wall",   start_pct |-> 75, end_pct |-> 90,  energy_min |-> 80, energy_max |-> 100],
       [name |-> "Glory",  start_pct |-> 90, end_pct |-> 100, energy_min |-> 85, energy_max |-> 100] >>

\* mutant of PhaseTimes: the duration is taken from the phase's end alone
PhaseTimesFromEnd(phase, goal_time) ==
    LET start_time == phase.start_pct * goal_time
        end_time   == phase.end_pct * goal_time
    IN [name |-> phase.name,
        start_pct |-> phase.start_pct, end_pct |-> phase.end_pct,
        energy_min |-> phase.energy_min, energy_max |-> phase.energy_max,
        start_time |-> start_time, end_time |-> end_time,
        duration |-> end_time - phase.start_pct]

\* the loop body of lines 89-92: times in 1/PctScale minute
PhaseTimes(phase, goal_time) ==
    LET start_time == phase.start_pct * goal_time
        end_time   == phase.end_pct * goal_time
    IN [name |-> phase.name,
        start_pct |-> phase.start_pct, end_pct |-> phase.end_pct,
        energy_min |-> phase.energy_min, energy_max |-> phase.energy_max,
        start_time |-> start_time, end_time |-> end_time,
        duration |-> end_time - start_time]

define_race_phases(distance, goal_time) ==
    [i \in 1..Len(PhaseTable) |-> PhaseTimes(PhaseTable[i], goal_time)]

-----------------------------------------------------------------------------
(* filter_tracks_for_phase *)

matches_full_cadence(tempo, cadence, tol) ==
    /\ cadence * TempoScale - tol * TempoScale <= tempo
    /\ tempo <= cadence * TempoScale + tol * TempoScale

\* mutant of matches_half_cadence: target_cadence // 2, floor division
matches_half_cadence_floor(tempo, cadence, tol) ==
    /\ (cadence \div 2) * TempoScale - tol * TempoScale <= tempo
    /\ tempo <= (cadence \div 2) * TempoScale + tol * TempoScale

\* target_cadence/2 is true division: cadence * TempoScale is even
matches_half_cadence(tempo, cadence, tol) ==
    /\ (cadence * TempoScale) \div 2 - tol * TempoScale <= tempo
    /\ tempo <= (cadence * TempoScale) \div 2 + tol * TempoScale

matches_double_cadence(tempo, cadence, tol) ==
    /\ cadence * 2 * TempoScale - tol * TempoScale <= tempo
    /\ tempo <= cadence * 2 * TempoScale + tol * TempoScale

\* mutant of matches_energy: the band's ends are excluded
matches_energy_exclusive(track, phase) ==
    phase.energy_min < track.energy /\ track.energy < phase.energy_max

matches_energy(track, phase) ==
    phase.energy_min <= track.energy /\ track.energy <= phase.energy_max

Suitable(track, phase, cadence, tol) ==
    /\ \/ matches_full_cadence(track.tempo, cadence, tol)
       \/ matches_half_cadence(track.tempo, cadence, tol)
       \/ matches_double_cadence(track.tempo, cadence, tol)
    /\ matches_energy(track, phase)

RECURSIVE FilterLoop(_, _, _, _, _)
\* for track in tracks: ... suitable_tracks.append(track)
FilterLoop(rest, phase, cadence, tol, acc) ==
    IF rest = << >> THEN acc
    ELSE FilterLoop(Tail(rest), phase, cadence, tol,
                    IF Suitable(Head(rest), phase, cadence, tol)
                    THEN Append(acc, Head(rest)) ELSE acc)

filter_tracks_for_phase(trks, phase, cadence, tol) ==
    FilterLoop(trks, phase, cadence, tol, << >>)

RECURSIVE EnergyLoop(_, _, _)
EnergyLoop(rest, phase, acc) ==
    IF rest = << >> THEN acc
    ELSE EnergyLoop(Tail(rest), phase,
                    IF matches_energy(Head(rest), phase)
                    THEN Append(acc, Head(rest)) ELSE acc)

\* mutant of EnergyOnly: the fallback takes every track of the catalog
EnergyOnlyAnyTrack(trks, phase) == trks

\* the list comprehension of lines 215-218
EnergyOnly(trks, phase) == EnergyLoop(trks, phase, << >>)

-----------------------------------------------------------------------------
(* fill_phase_duration *)

\* mutant of ListCopy: available_tracks = tracks, the caller's own list object
ListNoCopy(l) == [alias |-> TRUE, items |-> l]

\* A list object reached through a second name: `alias` tells whether the
\* name denotes the caller's list object itself or a fresh one.
\* tracks.copy() makes a fresh list object with the same items.
ListCopy(l) == [alias |-> FALSE, items |-> l]

\* mutant of KeepFilling: the loop goes on when the target is exactly reached
KeepFillingInclusive(current_duration_ms, target_duration_ms, available_tracks) ==
    current_duration_ms <= target_duration_ms /\ available_tracks.items # << >>

\* the loop condition of line 153
KeepFilling(current_duration_ms, target_duration_ms, available_tracks) ==
    current_duration_ms < target_duration_ms /\ available_tracks.items # << >>

RECURSIVE FillLoop(_, _, _, _, _)
\* the while loop of lines 153-159; `input` is the caller's list object
FillLoop(input, available_tracks, selected_tracks, current_duration_ms, target_duration_ms) ==
    IF KeepFilling(current_duration_ms, target_duration_ms, available_tracks)
    THEN LET track == Head(available_tracks.items)
             rest  == Tail(available_tracks.items)   \* pop(0)
         IN FillLoop(IF available_tracks.alias THEN rest ELSE input,
                     [available_tracks EXCEPT !.items = rest],
                     Append(selected_tracks, track),
                     current_duration_ms + track.duration_ms,
                     target_duration_ms)
    ELSE [input |-> input, selected |-> selected_tracks]

\* phase_duration_min is in 1/PctScale minute; the result holds the returned
\* list (selected) and the caller's list object after the call (input)
fill_phase_duration(trks, phase_duration_min) ==
    IF trks = << >> THEN [input |-> trks, selected |-> << >>]
    ELSE LET target_duration_ms == (phase_duration_min * 60 * 1000) \div PctScale
         IN FillLoop(trks, ListCopy(trks), << >>, 0, target_duration_ms)

-----------------------------------------------------------------------------
(* generate_playlist *)

\* mutant of NotEnough: the threshold is 2
NotEnoughBelowTwo(suitable) == Len(suitable) < 2

\* `len(suitable_tracks) < 3` of lines 203 and 213
NotEnough(suitable) == Len(suitable) < 3

CurrentPhase == phases[phase_idx]

\* lines 176-187: cadence, phases, the empty playlist
Start ==
    /\ pc = "start"
    /\ target_cadence' = calculate_target_cadence(distance_km, goal_time_min)
    /\ phases' = define_race_phases(distance_km, goal_time_min)
    /\ playlist' = << >>
    /\ bpm_tolerance' = 5
    /\ phase_idx' = 1
    /\ pc' = IF Len(phases') = 0 THEN "done" ELSE "filter"
    /\ UNCHANGED << tracks, distance_km, goal_time_min, suitable_tracks, phase_tracks,
                    tracks0, filter_log, contrib >>
    /\ UNCHANGED call_vars
    /\ UNCHANGED app_vars

\* lines 193-198: filter the catalog with the default tolerance
FilterPhase ==
    /\ pc = "filter"
    /\ suitable_tracks' = filter_tracks_for_phase(tracks, CurrentPhase, target_cadence,
                                                  bpm_tolerance)
    /\ filter_log' = Append(filter_log,
                            [step |-> "tol5", input |-> tracks, result |-> suitable_tracks'])
    /\ pc' = "relax"
    /\ UNCHANGED << tracks, distance_km, goal_time_min, target_cadence, phases, phase_idx,
                    bpm_tolerance, phase_tracks, playlist, tracks0, contrib >>
    /\ UNCHANGED call_vars
    /\ UNCHANGED app_vars

\* lines 203-210: not enough tracks, filter the catalog again with tolerance 10
RelaxTolerance ==
    /\ pc = "relax"
    /\ NotEnough(suitable_tracks)
    /\ suitable_tracks' = filter_tracks_for_phase(tracks, CurrentPhase, target_cadence, 10)
    /\ filter_log' = Append(filter_log,
                            [step |-> "tol10", input |-> tracks, result |-> suitable_tracks'])
    /\ pc' = "fallback"
    /\ UNCHANGED << tracks, distance_km, goal_time_min, target_cadence, phases, phase_idx,
                    bpm_tolerance, phase_tracks, playlist, tracks0, contrib >>
    /\ UNCHANGED call_vars
    /\ UNCHANGED app_vars

\* line 203 false
KeepTolerance ==
    /\ pc = "relax"
    /\ ~NotEnough(suitable_tracks)
    /\ pc' = "fallback"
    /\ UNCHANGED asm_vars
    /\ UNCHANGED call_vars
    /\ UNCHANGED app_vars

\* lines 213-218: still not enough, any track of the catalog with matching energy
EnergyFallback ==
    /\ pc = "fallback"
    /\ NotEnough(suitable_tracks)
    /\ suitable_tracks' = EnergyOnly(tracks, CurrentPhase)
    /\ filter_log' = Append(filter_log,
                            [step |-> "energy", input |-> tracks, result |-> suitable_tracks'])
    /\ pc' = "fill"
    /\ UNCHANGED << tracks, distance_km, goal_time_min, target_cadence, phases, phase_idx,
                    bpm_tolerance, phase_tracks, playlist, tracks0, contrib >>
    /\ UNCHANGED call_vars
    /\ UNCHANGED app_vars

\* line 213 false
KeepFiltered ==
    /\ pc = "fallback"
    /\ ~NotEnough(suitable_tracks)
    /\ pc' = "fill"
    /\ UNCHANGED asm_vars
    /\ UNCHANGED call_vars
    /\ UNCHANGED app_vars

\* lines 221-224 and the loop's advance: fill the phase, extend the playlist
FillPhase ==
    /\ pc = "fill"
    /\ LET r == fill_phase_duration(suitable_tracks, CurrentPhase.duration) IN
       /\ phase_tracks' = r.selected
       /\ suitable_tracks' = r.input
       /\ playlist' = playlist \o r.selected
       /\ contrib' = Append(contrib,
                            [name |-> CurrentPhase.name,
                             log |-> filter_log,
                             fill_input |-> suitable_tracks,
                             fill_after |-> r.input,
                             selected |-> r.selected])
    /\ filter_log' = << >>
    /\ phase_idx' = phase_idx + 1
    /\ pc' = IF phase_idx' > Len(phases) THEN "done" ELSE "filter"
    /\ UNCHANGED << tracks, distance_km, goal_time_min, target_cadence, phases,
                    bpm_tolerance, tracks0 >>
    /\ UNCHANGED call_vars
    /\ UNCHANGED app_vars

NextAsm ==
    \/ Start
    \/ FilterPhase
    \/ RelaxTolerance
    \/ KeepTolerance
    \/ EnergyFallback
    \/ KeepFiltered
    \/ FillPhase

-----------------------------------------------------------------------------
(* Inputs of the assembler *)

\* longest catalog
MaxTracks == 3

\* [tempo, energy, duration_ms] of the tracks a catalog is drawn from:
\* at cadence / off by 8 BPM / far off / at half cadence, energies on a band
\* edge, inside a band and outside every band
TrackKinds ==
    { [tempo |-> 175 * TempoScale, energy |-> 75, duration_ms |-> 200000],
      [tempo |-> 183 * TempoScale, energy |-> 75, duration_ms |-> 100000],
      [tempo |-> 120 * TempoScale, energy |-> 75, duration_ms |-> 60000],
      [tempo |-> 175 * TempoScale, energy |-> 50, duration_ms |-> 100000],
      [tempo |-> 175,              energy |-> 90, duration_ms |-> 200000],
      [tempo |-> 120 * TempoScale, energy |-> 40, duration_ms |-> 100000] }

\* a catalog: track i has id i and the features of kind ks[i]
Catalog(ks) ==
    [i \in 1..Len(ks) |-> [id |-> i, tempo |-> ks[i].tempo, energy |-> ks[i].energy,
                           duration_ms |-> ks[i].duration_ms]]

Catalogs(kinds, n) == UNION { { Catalog(ks) : ks \in [1..k -> kinds] } : k \in 0..n }

\* (distance_km, goal_time_min): paces 3.0, 4.5 and 6.0 min/km
AsmInputs == { <<10, 30>>, <<10, 45>>, <<10, 60>> }

NoCall == [fn |-> "none"]

AppIdle ==
    /\ authenticated = TRUE
    /\ saved_tracks = << >>
    /\ missing_features = {}
    /\ tracks_with_features = << >>
    /\ response = "none"

Init ==
    /\ tracks \in Catalogs(TrackKinds, MaxTracks)
    /\ tracks0 = tracks
    /\ \E in \in AsmInputs : distance_km = in[1] /\ goal_time_min = in[2]
    /\ target_cadence = 0
    /\ phases = << >>
    /\ phase_idx = 0
    /\ bpm_tolerance = 0
    /\ suitable_tracks = << >>
    /\ phase_tracks = << >>
    /\ playlist = << >>
    /\ filter_log = << >>
    /\ contrib = << >>
    /\ prev = NoCall
    /\ fill_duration_min = 0
    /\ pc = "start"
    /\ AppIdle

Next == NextAsm

Spec == Init /\ [][Next]_vars

-----------------------------------------------------------------------------
(* Properties of generate_playlist *)

PhaseNames == << "Warmup", "Settle", "Cruise", "Grind", "Wall", "Glory" >>

\* the energy bands of the six phases, in 1/PctScale
PhaseBands == << <<50, 60>>, <<50, 65>>, <<60, 70>>, <<70, 80>>, <<80, 100>>, <<85, 100>> >>

InBand(e, band) == band[1] <= e /\ e <= band[2]

StepsOf(log) == [k \in 1..Len(log) |-> log[k].step]

IsPrefix(s, t) == Len(s) <= Len(t) /\ s = SubSeq(t, 1, Len(s))

RECURSIVE ConcatSelected(_)
ConcatSelected(cs) ==
    IF cs = << >> THEN << >> ELSE ConcatSelected(SubSeq(cs, 1, Len(cs) - 1)) \o cs[Len(cs)].selected

\* the filter steps run so far for one phase are tolerance 5, then tolerance
\* 10 only after tolerance 5 gave fewer than 3, then energy-only only after
\* tolerance 10 was run and gave fewer than 3
EscalationOrder(log) ==
    /\ IsPrefix(StepsOf(log), << "tol5", "tol10", "energy" >>)
    /\ Len(log) >= 2 => Len(log[1].result) < 3
    /\ Len(log) >= 3 => Len(log[2].result) < 3

\* C1: for every processed phase the set handed to fill_phase_duration is the
\* tolerance-5 result if it has at least 3 tracks, else the tolerance-10
\* result if that has at least 3, else the energy-only result; energy-only is
\* used only after tolerance 10 was run for that phase and gave fewer than 3.
C1_StrictEscalation ==
    /\ EscalationOrder(filter_log)
    /\ \A i \in 1..Len(contrib) :
         LET c   == contrib[i]
             f5  == filter_tracks_for_phase(tracks0, phases[i], target_cadence, 5)
             f10 == filter_tracks_for_phase(tracks0, phases[i], target_cadence, 10)
             eo  == EnergyOnly(tracks0, phases[i])
         IN /\ EscalationOrder(c.log)
            /\ c.fill_input = IF Len(f5) >= 3 THEN f5
                              ELSE IF Len(f10) >= 3 THEN f10 ELSE eo
            /\ c.fill_input = c.log[Len(c.log)].result
            /\ c.log[1].result = f5
            /\ Len(c.log) >= 2 => c.log[2].result = f10
            /\ Len(c.log) >= 3 => c.log[3].result = eo

\* a phase with exactly 2 tracks at tolerance 5 and at tolerance 10, which
\* went on to the energy-only set of 3
C1_Witness ==
    \E i \in 1..Len(contrib) :
        /\ Len(contrib[i].log) = 3
        /\ Len(contrib[i].log[1].result) = 2
        /\ Len(contrib[i].log[2].result) = 2
        /\ Len(contrib[i].fill_input) = 3

\* a phase that stopped at tolerance 10 with 3 tracks
C1_WitnessRelaxed ==
    \E i \in 1..Len(contrib) :
        /\ Len(contrib[i].log) = 2
        /\ Len(contrib[i].log[1].result) < 3
        /\ Len(contrib[i].fill_input) = 3

\* C4: the six phases are processed once each in the order Warmup, Settle,
\* Cruise, Grind, Wall, Glory, none skipped; the call ends exactly after
\* Glory; the playlist is the concatenation of the fill outputs in that order.
C4_SixPhasesInOrder ==
    /\ IsPrefix([i \in 1..Len(contrib) |-> contrib[i].name], PhaseNames)
    /\ pc \in {"filter", "relax", "fallback", "fill"} =>
           /\ phase_idx = Len(contrib) + 1
           /\ phase_idx <= 6
           /\ ENABLED NextAsm
    /\ pc = "done" <=> Len(contrib) = 6
    /\ pc # "start" => playlist = ConcatSelected(contrib)

\* a finished call in which some phase contributed nothing and a later one did
C4_Witness ==
    /\ pc = "done"
    /\ \E i, j \in 1..Len(contrib) :
          i < j /\ contrib[i].selected = << >> /\ contrib[j].selected # << >>

\* C5: every track a phase contributed has its energy inside that phase's
\* band, whichever filter level was active; a track with energy 0.75 is never
\* contributed by Warmup, and one at the target cadence is among the tracks
\* handed to the filler for Grind.
C5_EnergyBandKept ==
    /\ \A i \in 1..Len(contrib) : \A k \in 1..Len(contrib[i].selected) :
          /\ InBand(contrib[i].selected[k].energy,
                    << phases[i].energy_min, phases[i].energy_max >>)
          /\ InBand(contrib[i].selected[k].energy, PhaseBands[i])
          /\ contrib[i].name = "Warmup" => contrib[i].selected[k].energy # 75
    /\ \A i \in 1..Len(contrib) : \A t \in 1..Len(tracks0) :
          ( /\ contrib[i].name = "Grind"
            /\ tracks0[t].energy = 75
            /\ tracks0[t].tempo = target_cadence * TempoScale )
          => \E k \in 1..Len(contrib[i].fill_input) : contrib[i].fill_input[k] = tracks0[t]

\* Grind filled from the energy-only set with a track of energy 0.75 whose
\* tempo is far from the cadence
C5_Witness ==
    \E i \in 1..Len(contrib) :
        /\ contrib[i].name = "Grind"
        /\ Len(contrib[i].log) = 3
        /\ \E k \in 1..Len(contrib[i].selected) :
              /\ contrib[i].selected[k].energy = 75
              /\ contrib[i].selected[k].tempo = 120 * TempoScale

SomeBandHolds(trks) ==
    \E t \in 1..Len(trks) : \E b \in 1..Len(PhaseBands) : InBand(trks[t].energy, PhaseBands[b])

\* C6: the returned playlist is empty exactly when no track of the catalog has
\* its energy inside any of the six phase bands.
C6_EmptyIffNoBand ==
    pc = "done" => (playlist = << >> <=> ~SomeBandHolds(tracks0))

\* a non-empty catalog, every track outside every band, and an empty playlist
C6_Witness ==
    /\ pc = "done"
    /\ tracks0 # << >>
    /\ playlist = << >>

-----------------------------------------------------------------------------
(* Direct calls of calculate_target_cadence *)

\* distances 1..MaxDistanceKm km, goal times 1..MaxGoalTime minutes
MaxDistanceKm == 10
MaxGoalTime == 51

\* a direct call of the estimator or the planner has no catalog and no loop
NoCatalog ==
    /\ tracks = << >>
    /\ tracks0 = << >>
    /\ suitable_tracks = << >>
    /\ phase_tracks = << >>
    /\ playlist = << >>

NoLoop ==
    /\ phase_idx = 0
    /\ bpm_tolerance = 0
    /\ filter_log = << >>
    /\ contrib = << >>
    /\ fill_duration_min = 0

InitCadence ==
    /\ distance_km \in 1..MaxDistanceKm
    /\ goal_time_min \in 1..MaxGoalTime
    /\ target_cadence = 0
    /\ pc = "call"
    /\ prev = NoCall
    /\ phases = << >>
    /\ NoCatalog
    /\ NoLoop
    /\ AppIdle

CallCadence ==
    /\ pc = "call"
    /\ target_cadence' = calculate_target_cadence(distance_km, goal_time_min)
    /\ pc' = "returned"
    /\ UNCHANGED << tracks, distance_km, goal_time_min, phases, phase_idx, bpm_tolerance,
                    suitable_tracks, phase_tracks, playlist, tracks0, filter_log, contrib >>
    /\ UNCHANGED call_vars
    /\ UNCHANGED app_vars

\* the caller keeps the first result and calls once more with any arguments
AgainCadence ==
    /\ pc = "returned"
    /\ prev = NoCall
    /\ prev' = [fn |-> "calculate_target_cadence", distance_km |-> distance_km,
                goal_time_min |-> goal_time_min, result |-> target_cadence]
    /\ distance_km' \in 1..MaxDistanceKm
    /\ goal_time_min' \in 1..MaxGoalTime
    /\ target_cadence' = 0
    /\ pc' = "call"
    /\ UNCHANGED << tracks, phases, phase_idx, bpm_tolerance, suitable_tracks, phase_tracks,
                    playlist, tracks0, filter_log, contrib, fill_duration_min >>
    /\ UNCHANGED app_vars

NextCadence == CallCadence \/ AgainCadence

SpecCadence == InitCadence /\ [][NextCadence]_vars

\* C7: the cadence is 180 for a pace below 4.0 min/km, 175 for a pace from 4.0
\* to below 5.0, 170 for a pace of 5.0 or more; it is one of the three values;
\* a call with a pace at least as slow as an earlier call's never returns a
\* higher cadence; pace 4.0 gives 175 and pace 5.0 gives 170 (10 km in 50 min).
C7_CadenceByPace ==
    pc = "returned" =>
        /\ target_cadence \in {170, 175, 180}
        /\ goal_time_min < 4 * distance_km => target_cadence = 180
        /\ (4 * distance_km <= goal_time_min /\ goal_time_min < 5 * distance_km)
              => target_cadence = 175
        /\ goal_time_min >= 5 * distance_km => target_cadence = 170
        /\ goal_time_min = 4 * distance_km => target_cadence = 175
        /\ (distance_km = 10 /\ goal_time_min = 50) => target_cadence = 170
        /\ prev.fn = "calculate_target_cadence" =>
              /\ prev.goal_time_min * distance_km <= goal_time_min * prev.distance_km
                    => prev.result >= target_cadence
              /\ prev.goal_time_min * distance_km >= goal_time_min * prev.distance_km
                    => prev.result <= target_cadence

\* 10 km in 50 minutes (pace exactly 5.0) right after a call at pace exactly 4.0
C7_Witness ==
    /\ pc = "returned"
    /\ distance_km = 10 /\ goal_time_min = 50 /\ target_cadence = 170
    /\ prev.fn = "calculate_target_cadence"
    /\ prev.goal_time_min = 4 * prev.distance_km /\ prev.result = 175

-----------------------------------------------------------------------------
(* Direct calls of define_race_phases *)

MaxPhaseDistanceKm == 2
MaxPhaseGoalTime == 60

InitPhases ==
    /\ distance_km \in 1..MaxPhaseDistanceKm
    /\ goal_time_min \in 1..MaxPhaseGoalTime
    /\ phases = << >>
    /\ pc = "call"
    /\ prev = NoCall
    /\ target_cadence = 0
    /\ NoCatalog
    /\ NoLoop
    /\ AppIdle

CallPhases ==
    /\ pc = "call"
    /\ phases' = define_race_phases(distance_km, goal_time_min)
    /\ pc' = "returned"
    /\ UNCHANGED << tracks, distance_km, goal_time_min, target_cadence, phase_idx,
                    bpm_tolerance, suitable_tracks, phase_tracks, playlist, tracks0,
                    filter_log, contrib >>
    /\ UNCHANGED call_vars
    /\ UNCHANGED app_vars

\* the caller keeps the first result and calls once more with any arguments
AgainPhases ==
    /\ pc = "returned"
    /\ prev = NoCall
    /\ prev' = [fn |-> "define_race_phases", distance_km |-> distance_km,
                goal_time_min |-> goal_time_min, result |-> phases]
    /\ distance_km' \in 1..MaxPhaseDistanceKm
    /\ goal_time_min' \in 1..MaxPhaseGoalTime
    /\ phases' = << >>
    /\ pc' = "call"
    /\ UNCHANGED << tracks, target_cadence, phase_idx, bpm_tolerance, suitable_tracks,
                    phase_tracks, playlist, tracks0, filter_log, contrib, fill_duration_min >>
    /\ UNCHANGED app_vars

NextPhases == CallPhases \/ AgainPhases

SpecPhases == InitPhases /\ [][NextPhases]_vars

RECURSIVE SumDurations(_)
SumDurations(ps) ==
    IF ps = << >> THEN 0 ELSE ps[Len(ps)].duration + SumDurations(SubSeq(ps, 1, Len(ps) - 1))

\* C8: the planner returns the six phases Warmup..Glory in order; their
\* fractions tile [0,1] (first start 0, each start the previous end, last end
\* 1, start < end); energy_min <= energy_max; each duration is
\* (end_pct - start_pct) x goal_time and the six sum to goal_time; two calls
\* with the same goal time and any distances return the same phases.
C8_PhasesTileGoalTime ==
    pc = "returned" =>
        /\ Len(phases) = 6
        /\ [i \in 1..Len(phases) |-> phases[i].name] = PhaseNames
        /\ phases[1].start_pct = 0
        /\ phases[6].end_pct = PctScale
        /\ \A i \in 1..5 : phases[i + 1].start_pct = phases[i].end_pct
        /\ \A i \in 1..6 :
              /\ phases[i].start_pct < phases[i].end_pct
              /\ phases[i].energy_min <= phases[i].energy_max
              /\ phases[i].duration = (phases[i].end_pct - phases[i].start_pct) * goal_time_min
        /\ SumDurations(phases) = goal_time_min * PctScale
        /\ (prev.fn = "define_race_phases" /\ prev.goal_time_min = goal_time_min)
              => prev.result = phases

\* a 60 minute plan returned right after a 60 minute plan for another distance
C8_Witness ==
    /\ pc = "returned"
    /\ goal_time_min = 60
    /\ prev.fn = "define_race_phases"
    /\ prev.goal_time_min = 60
    /\ prev.distance_km # distance_km
    /\ phases[4].duration = 12 * PctScale

-----------------------------------------------------------------------------
(* Direct calls of filter_tracks_for_phase *)

MaxFilterTracks == 2

\* tempos on and just off the ends of the three tempo windows (169.5, 180,
\* 92.5, 93, 355 BPM) and far from all of them (120 BPM); energies on a band
\* end and just past one
FilterKinds ==
    { [tempo |-> t, energy |-> e, duration_ms |-> 180000] :
          t \in {339, 360, 185, 186, 710, 240}, e \in {50, 66} }

InitFilter ==
    /\ tracks \in Catalogs(FilterKinds, MaxFilterTracks)
    /\ tracks0 = tracks
    /\ phases = define_race_phases(10, 60)
    /\ phase_idx \in 1..Len(phases)
    /\ target_cadence \in {170, 175, 180}
    /\ bpm_tolerance \in {5, 10}
    /\ suitable_tracks = << >>
    /\ distance_km = 10
    /\ goal_time_min = 60
    /\ phase_tracks = << >>
    /\ playlist = << >>
    /\ filter_log = << >>
    /\ contrib = << >>
    /\ fill_duration_min = 0
    /\ prev = NoCall
    /\ pc = "call"
    /\ AppIdle

CallFilter ==
    /\ pc = "call"
    /\ suitable_tracks' = filter_tracks_for_phase(tracks, CurrentPhase, target_cadence,
                                                  bpm_tolerance)
    /\ pc' = "returned"
    /\ UNCHANGED << tracks, distance_km, goal_time_min, target_cadence, phases, phase_idx,
                    bpm_tolerance, phase_tracks, playlist, tracks0, filter_log, contrib >>
    /\ UNCHANGED call_vars
    /\ UNCHANGED app_vars

\* the caller keeps the first result and runs the filter again on the same inputs
AgainFilter ==
    /\ pc = "returned"
    /\ prev = NoCall
    /\ prev' = [fn |-> "filter_tracks_for_phase", result |-> suitable_tracks]
    /\ suitable_tracks' = << >>
    /\ pc' = "call"
    /\ UNCHANGED << tracks, distance_km, goal_time_min, target_cadence, phases, phase_idx,
                    bpm_tolerance, phase_tracks, playlist, tracks0, filter_log, contrib,
                    fill_duration_min >>
    /\ UNCHANGED app_vars

NextFilter == CallFilter \/ AgainFilter

SpecFilter == InitFilter /\ [][NextFilter]_vars

Abs(x) == IF x < 0 THEN -x ELSE x

\* |tempo - cadence * num / den| <= tolerance, for a tempo in 1/TempoScale BPM
TempoWithin(tempo, cadence, num, den, tol) ==
    Abs(den * tempo - num * cadence * TempoScale) <= den * tol * TempoScale

ClaimedMatch(t, band, cadence, tol) ==
    /\ \/ TempoWithin(t.tempo, cadence, 1, 1, tol)
       \/ TempoWithin(t.tempo, cadence, 1, 2, tol)
       \/ TempoWithin(t.tempo, cadence, 2, 1, tol)
    /\ InBand(t.energy, band)

\* s is t with some elements left out, order kept
RECURSIVE IsSubsequence(_, _)
IsSubsequence(s, t) ==
    IF s = << >> THEN TRUE
    ELSE IF t = << >> THEN FALSE
    ELSE IF Head(s) = Head(t) THEN IsSubsequence(Tail(s), Tail(t))
    ELSE IsSubsequence(s, Tail(t))

-----------------------------------------------------------------------------
(* Direct calls of fill_phase_duration *)

MaxFillTracks == 3
\* target durations 0, 0.5, ..., MaxFillHalfMinutes / 2 minutes
MaxFillHalfMinutes == 8

FillKinds ==
    { [tempo |-> 175 * TempoScale, energy |-> 75, duration_ms |-> d] :
          d \in {60000, 90000, 120000} }

InitFill ==
    /\ tracks \in Catalogs(FillKinds, MaxFillTracks)
    /\ tracks0 = tracks
    /\ fill_duration_min \in { k * (PctScale \div 2) : k \in 0..MaxFillHalfMinutes }
    /\ phase_tracks = << >>
    /\ phases = << >>
    /\ phase_idx = 0
    /\ target_cadence = 0
    /\ bpm_tolerance = 0
    /\ suitable_tracks = << >>
    /\ distance_km = 0
    /\ goal_time_min = 0
    /\ playlist = << >>
    /\ filter_log = << >>
    /\ contrib = << >>
    /\ prev = NoCall
    /\ pc = "call"
    /\ AppIdle

\* the caller's list object is `tracks`; the call leaves in it what the body left
CallFill ==
    /\ pc = "call"
    /\ LET r == fill_phase_duration(tracks, fill_duration_min) IN
       /\ phase_tracks' = r.selected
       /\ tracks' = r.input
    /\ pc' = "returned"
    /\ UNCHANGED << distance_km, goal_time_min, target_cadence, phases, phase_idx,
                    bpm_tolerance, suitable_tracks, playlist, tracks0, filter_log, contrib >>
    /\ UNCHANGED call_vars
    /\ UNCHANGED app_vars

NextFill == CallFill

SpecFill == InitFill /\ [][NextFill]_vars

RECURSIVE TotalMs(_)
TotalMs(trks) ==
    IF trks = << >> THEN 0 ELSE trks[Len(trks)].duration_ms + TotalMs(SubSeq(trks, 1, Len(trks) - 1))

\* the lengths of the prefixes of trks that last at least target_ms
ReachingPrefixes(trks, target_ms) ==
    { k \in 0..Len(trks) : TotalMs(SubSeq(trks, 1, k)) >= target_ms }

Min(S) == CHOOSE x \in S : \A y \in S : x <= y

C2_WitnessExhausted ==
    /\ pc = "returned"
    /\ tracks0 # << >>
    /\ phase_tracks = tracks0
    /\ TotalMs(phase_tracks) < (fill_duration_min * 60000) \div PctScale

-----------------------------------------------------------------------------
(* Callers of the two functions that take a track list from outside *)

\* generate_playlist on a catalog, or fill_phase_duration called directly on a list
InitLists == Init \/ InitFill

NextLists == NextAsm \/ NextFill

SpecLists == InitLists /\ [][NextLists]_vars

\* C9: generate_playlist and fill_phase_duration leave the track list they are
\* given as it was (the filler pops from a copy), and every filter step of
\* every phase reads the whole original catalog.
C9_InputsUnchanged ==
    /\ tracks = tracks0
    /\ \A k \in 1..Len(filter_log) : filter_log[k].input = tracks0
    /\ \A i \in 1..Len(contrib) :
          /\ contrib[i].fill_after = contrib[i].fill_input
          /\ \A k \in 1..Len(contrib[i].log) : contrib[i].log[k].input = tracks0

\* a phase whose three filter steps were all run and whose filler took some
\* but not all of the tracks it was given
C9_Witness ==
    \E i \in 1..Len(contrib) :
        /\ Len(contrib[i].log) = 3
        /\ contrib[i].selected # << >>
        /\ Len(contrib[i].selected) < Len(contrib[i].fill_input)

\* a direct call of the filler that took some but not all of its input
C9_WitnessDirect ==
    /\ pc = "returned"
    /\ phase_tracks # << >>
    /\ Len(phase_tracks) < Len(tracks0)

-----------------------------------------------------------------------------
(* The /generate handler (src/app.py) *)

\* sp.audio_features takes at most 100 ids per request
BatchSize == 100

\* longest saved-track library
MaxSaved == 3

\* item['track'] of the saved items: three Spotify tracks and a local file,
\* which has no id
SavedItems ==
    { [id |-> "a", name |-> "Song A", artist |-> "Artist A", duration_ms |-> 200000],
      [id |-> "b", name |-> "Song B", artist |-> "Artist B", duration_ms |-> 100000],
      [id |-> "c", name |-> "Song C", artist |-> "Artist C", duration_ms |-> 60000],
      [id |-> None, name |-> "Local file", artist |-> "Unknown", duration_ms |-> 100000] }

\* what the service holds as the audio features of each track id
AudioFeaturesOf(id) ==
    CASE id = "a" -> [none |-> FALSE, id |-> "a", tempo |-> 175 * TempoScale, energy |-> 75,
                      valence |-> 10, danceability |-> 20]
      [] id = "b" -> [none |-> FALSE, id |-> "b", tempo |-> 178 * TempoScale, energy |-> 75,
                      valence |-> 30, danceability |-> 40]
      [] id = "c" -> [none |-> FALSE, id |-> "c", tempo |-> 183 * TempoScale, energy |-> 75,
                      valence |-> 50, danceability |-> 60]

NoFeatures == [none |-> TRUE]

\* a library holds a Spotify track at most once
Libraries ==
    { lib \in UNION { [1..k -> SavedItems] : k \in 0..MaxSaved } :
          \A i, j \in 1..Len(lib) : (i # j /\ lib[i].id = lib[j].id) => lib[i].id = None }

IdsOf(lib) == { lib[i].id : i \in 1..Len(lib) } \ {None}

\* line 124: the ids of the items that have one
track_ids(saved) == [i \in 1..Len(SelectSeq(saved, LAMBDA it : it.id # None))
                        |-> SelectSeq(saved, LAMBDA it : it.id # None)[i].id]

\* sp.audio_features(batch): one entry per id, None for an id without features
audio_features(batch, missing) ==
    [i \in 1..Len(batch) |-> IF batch[i] \in missing THEN NoFeatures
                             ELSE AudioFeaturesOf(batch[i])]

RECURSIVE all_features(_, _)
\* lines 127-131: batches of BatchSize ids, the None results dropped
all_features(ids, missing) ==
    IF ids = << >> THEN << >>
    ELSE LET n     == IF Len(ids) < BatchSize THEN Len(ids) ELSE BatchSize
             batch == SubSeq(ids, 1, n)
             features == audio_features(batch, missing)
         IN SelectSeq(features, LAMBDA f : ~f.none)
              \o all_features(SubSeq(ids, n + 1, Len(ids)), missing)

\* lines 134-146: zip(saved_tracks, all_features)
combine(saved, feats) ==
    LET n == IF Len(saved) < Len(feats) THEN Len(saved) ELSE Len(feats) IN
    [i \in 1..n |-> [id |-> saved[i].id,
                     name |-> saved[i].name,
                     artist |-> saved[i].artist,
                     duration_ms |-> saved[i].duration_ms,
                     tempo |-> feats[i].tempo,
                     energy |-> feats[i].energy,
                     valence |-> feats[i].valence,
                     danceability |-> feats[i].danceability]]

InitApp ==
    /\ authenticated \in BOOLEAN
    /\ saved_tracks \in Libraries
    /\ missing_features \in SUBSET IdsOf(saved_tracks)
    /\ \E in \in AsmInputs : distance_km = in[1] /\ goal_time_min = in[2]
    /\ tracks_with_features = << >>
    /\ response = "none"
    /\ target_cadence = 0
    /\ phases = << >>
    /\ NoCatalog
    /\ NoLoop
    /\ prev = NoCall
    /\ pc = "request"

\* lines 97-98: no token in the session
RedirectToLogin ==
    /\ pc = "request"
    /\ ~authenticated
    /\ response' = "redirect: login"
    /\ pc' = "responded"
    /\ UNCHANGED asm_vars
    /\ UNCHANGED call_vars
    /\ UNCHANGED << authenticated, saved_tracks, missing_features, tracks_with_features >>

\* lines 108-156: fetch the features, build the records, call generate_playlist
FetchAndCombine ==
    /\ pc = "request"
    /\ authenticated
    /\ tracks_with_features' =
           combine(saved_tracks, all_features(track_ids(saved_tracks), missing_features))
    /\ tracks' = tracks_with_features'
    /\ tracks0' = tracks_with_features'
    /\ pc' = "start"
    /\ UNCHANGED << distance_km, goal_time_min, target_cadence, phases, phase_idx,
                    bpm_tolerance, suitable_tracks, phase_tracks, playlist, filter_log,
                    contrib >>
    /\ UNCHANGED call_vars
    /\ UNCHANGED << authenticated, saved_tracks, missing_features, response >>

\* lines 158-189: 400 for an empty playlist, else the playlist is created
Respond ==
    /\ pc = "done"
    /\ response' = IF playlist = << >> THEN "400: not enough suitable tracks"
                   ELSE "200: success"
    /\ pc' = "responded"
    /\ UNCHANGED asm_vars
    /\ UNCHANGED call_vars
    /\ UNCHANGED << authenticated, saved_tracks, missing_features, tracks_with_features >>

NextApp ==
    \/ RedirectToLogin
    \/ FetchAndCombine
    \/ NextAsm
    \/ Respond

SpecApp == InitApp /\ [][NextApp]_vars

\* C10: every record passed to generate_playlist pairs a saved track's id,
\* name, artist and duration_ms with the tempo, energy, valence and
\* danceability fetched for that same track id.
C10_FeaturesOfSameTrack ==
    \A r \in 1..Len(tracks_with_features) :
        LET rec == tracks_with_features[r] IN
        /\ \E i \in 1..Len(saved_tracks) :
              /\ saved_tracks[i].id = rec.id
              /\ saved_tracks[i].name = rec.name
              /\ saved_tracks[i].artist = rec.artist
              /\ saved_tracks[i].duration_ms = rec.duration_ms
        /\ rec.id # None
        /\ rec.id \notin missing_features
        /\ rec.tempo = AudioFeaturesOf(rec.id).tempo
        /\ rec.energy = AudioFeaturesOf(rec.id).energy
        /\ rec.valence = AudioFeaturesOf(rec.id).valence
        /\ rec.danceability = AudioFeaturesOf(rec.id).danceability

\* a library without id-less items and without missing features: the records
\* are paired as claimed
C10_AlignedWhenNothingDropped ==
    ( /\ \A i \in 1..Len(saved_tracks) : saved_tracks[i].id # None
      /\ missing_features = {} )
    => C10_FeaturesOfSameTrack

====
